---- MODULE Spec2Model ----
(***************************************************************************)
(* Model of the campaign orchestration code of                            *)
(* src/src/utils/firebaseBackend.py: the campaign registry and its        *)
(* control endpoints, run_parallel_campaign with its per-project          *)
(* run_project_campaign tasks, the daily count ledger and the             *)
(* /lightning/send-batch endpoint.                                        *)
(*                                                                         *)
(* Everything runs on one asyncio event loop: a step of the model is the   *)
(* code a coroutine executes between two suspension points (await).       *)
(***************************************************************************)
EXTENDS Integers, Sequences, FiniteSets, TLC

\* ---------------------------------------------------------------- bounds
MaxStarts == 2         \* start_campaign calls that are accepted
MaxDay == 1            \* midnights that pass
MaxLightning == 1      \* lightning_send_batch calls in one behaviour
MaxCalls == 3          \* consecutive increment_daily_count calls looked at

\* ------------------------------------------------------------ input sets
ProjectOrder == <<"p1", "p2", "p3">>
Projects == {ProjectOrder[i] : i \in 1..Len(ProjectOrder)}
EmailNames == <<"a@x", "b@x", "c@x", "d@x">>
None == "None"

Range(s) == {s[i] : i \in 1..Len(s)}

\* user id lists, in the order supplied (the ids are 1, 2); one list names
\* an id twice
UidLists == {<<>>, <<1, 1>>, <<1, 2>>}

\* the projects that have been added with add_project
Registered == {"p1", "p2"}

\* CampaignCreate bodies.  A behaviour follows one campaign, which is one of:
\* no id list at all; one project of two with one or two ids; two projects
\* with an id each; an id list for p2 that projectIds does not name; an id
\* list for p3 that is not registered.
CampaignInputs ==
  {[projectIds |-> {"p1"}, selectedUsers |-> <<>>],
   [projectIds |-> {"p1", "p2"}, selectedUsers |-> [p \in {"p1"} |-> <<1>>]],
   [projectIds |-> {"p1", "p2"}, selectedUsers |-> [p \in {"p1"} |-> <<1, 2>>]],
   [projectIds |-> {"p1", "p2"}, selectedUsers |-> [p \in {"p1", "p2"} |-> <<1>>]],
   [projectIds |-> {"p1"}, selectedUsers |-> [p \in {"p1", "p2"} |-> <<1>>]],
   [projectIds |-> {"p1", "p2"}, selectedUsers |-> [p \in {"p1", "p3"} |-> <<1>>]]}

\* an Optional value: <<>> is None, <<v>> is the value v
Some(v) == <<v>>
\* CampaignUpdate bodies
UpdateInputs ==
  {[name |-> Some("n2"), batchSize |-> Some(0), workers |-> <<>>, template |-> Some("")]}

VARIABLES
  firebase_apps,     \* project ids with an admin handle
  pyrebase_apps,     \* project ids with a client handle
  active_campaigns,  \* campaign ids in the registry
  campaigns,         \* campaign id -> the campaign dict (kept while tasks hold it)
  daily_counts,      \* <<project, day>> -> [project_id, date, sent]
  today,             \* date.today()
  runs,              \* background tasks run_parallel_campaign, by launch order
  units,             \* run_project_campaign tasks that have not finished
  fire_queue,        \* detached fire_email tasks not yet run
  lightnings,        \* lightning_send_batch calls so far
  sends_ok,          \* <<project, day>> -> successful send calls (history)
  response           \* what the last endpoint call returned

vars == <<firebase_apps, pyrebase_apps, active_campaigns, campaigns,
          daily_counts, today, runs, units, fire_queue, lightnings,
          sends_ok, response>>

Days == 0..MaxDay
Keys == Projects \X Days
\* a response: the endpoint, the HTTP status, the detail of the HTTPException
\* or the error of the body ("" when there is none) and the count of the body
NoResponse == [op |-> "", code |-> 0, detail |-> "", n |-> 0]
Resp(op, code, detail, n) == [op |-> op, code |-> code, detail |-> detail, n |-> n]

ZeroStats == [processed |-> 0, successful |-> 0, failed |-> 0]

\* ------------------------------------------------------- quota ledger
\* an increment that writes a fresh record each time
increment_daily_count_fresh(dc, project_id, day) ==
  [k \in DOMAIN dc \cup {<<project_id, day>>} |->
     IF k = <<project_id, day>>
     THEN [project_id |-> project_id, date |-> day, sent |-> 1]
     ELSE dc[k]]

increment_daily_count(dc, project_id, day) ==
  LET key == <<project_id, day>>
      d1 == IF key \in DOMAIN dc THEN dc
            ELSE [k \in DOMAIN dc \cup {key} |->
                    IF k = key
                    THEN [project_id |-> project_id, date |-> day, sent |-> 0]
                    ELSE dc[k]]
  IN [d1 EXCEPT ![key].sent = @ + 1]

\* a read whose key leaves the date out: the count of the project over all days
get_daily_count_undated(dc, project_id, day) ==
  IF \E k \in DOMAIN dc : k[1] = project_id
  THEN LET k == CHOOSE k \in DOMAIN dc :
                  k[1] = project_id /\ \A k2 \in DOMAIN dc : k2[1] = project_id => k2[2] >= k[2]
       IN dc[k].sent
  ELSE 0

get_daily_count(dc, project_id, day) ==
  IF <<project_id, day>> \in DOMAIN dc THEN dc[<<project_id, day>>].sent ELSE 0

\* GET /daily-counts: the whole mapping
get_all_daily_counts(dc) == dc

\* the history of successful send_password_reset_email calls
RecordSend(h, project_id, day) == [h EXCEPT ![<<project_id, day>>] = @ + 1]

Init ==
  /\ firebase_apps = Registered
  /\ pyrebase_apps = firebase_apps
  /\ active_campaigns = {}
  /\ campaigns = <<>>
  /\ daily_counts = <<>>
  /\ today = 0
  /\ runs = <<>>
  /\ units = {}
  /\ fire_queue = <<>>
  /\ lightnings = 0
  /\ sends_ok = [k \in Keys |-> 0]
  /\ response = NoResponse

\* ------------------------------------------------- campaign endpoints
\* the dict create_campaign builds
NewCampaign(inp) ==
  [name |-> "n1", projectIds |-> inp.projectIds,
   selectedUsers |-> inp.selectedUsers,
   batchSize |-> 1, workers |-> 1, template |-> <<>>,
   status |-> "pending", startedAt |-> <<>>, completedAt |-> <<>>,
   processed |-> 0, successful |-> 0, failed |-> 0, errors |-> <<>>,
   projectStats |-> [pid \in inp.projectIds |-> ZeroStats]]

create_campaign(inp) ==
  /\ campaigns = <<>>
  /\ LET campaign_id == Len(campaigns) + 1
         campaign_data == NewCampaign(inp)
     IN /\ campaigns' = Append(campaigns, campaign_data)
        /\ active_campaigns' = active_campaigns \cup {campaign_id}
        /\ response' = Resp("create", 200, "", 0)
  /\ UNCHANGED <<firebase_apps, pyrebase_apps, daily_counts, today, runs, units,
                 fire_queue, lightnings, sends_ok>>

\* PUT /campaigns/{id}: fields that are truthy replace the stored ones
TruthyStr(opt) == opt # <<>> /\ opt[1] # ""
TruthyInt(opt) == opt # <<>> /\ opt[1] # 0
ApplyUpdate(campaign, upd) ==
  [campaign EXCEPT
     !.name = IF TruthyStr(upd.name) THEN upd.name[1] ELSE @,
     !.batchSize = IF TruthyInt(upd.batchSize) THEN upd.batchSize[1] ELSE @,
     !.workers = IF TruthyInt(upd.workers) THEN upd.workers[1] ELSE @,
     !.template = IF TruthyStr(upd.template) THEN upd.template ELSE @]

\* the status test misspelt: it never matches
IsRunningMisspelt(campaign) == campaign.status = "Running"

\* the status test of update_campaign, delete_campaign and start_campaign
IsRunning(campaign) == campaign.status = "running"

get_campaign(campaign_id) ==
  /\ response' = IF campaign_id \notin active_campaigns
                 THEN Resp("get", 404, "Campaign not found", 0)
                 ELSE Resp("get", 200, "", 0)
  /\ UNCHANGED <<firebase_apps, pyrebase_apps, active_campaigns, campaigns,
                 daily_counts, today, runs, units, fire_queue, lightnings, sends_ok>>

update_campaign(campaign_id, upd) ==
  /\ IF campaign_id \notin active_campaigns
     THEN /\ response' = Resp("update", 404, "Campaign not found", 0)
          /\ UNCHANGED campaigns
     ELSE IF IsRunning(campaigns[campaign_id])
     THEN /\ response' = Resp("update", 400, "Cannot update running campaign", 0)
          /\ UNCHANGED campaigns
     ELSE /\ campaigns' = [campaigns EXCEPT
                             ![campaign_id] = ApplyUpdate(@, upd)]
          /\ response' = Resp("update", 200, "", 0)
  /\ UNCHANGED <<firebase_apps, pyrebase_apps, active_campaigns, daily_counts,
                 today, runs, units, fire_queue, lightnings, sends_ok>>

delete_campaign(campaign_id) ==
  /\ IF campaign_id \notin active_campaigns
     THEN /\ response' = Resp("delete", 404, "Campaign not found", 0)
          /\ UNCHANGED active_campaigns
     ELSE IF IsRunning(campaigns[campaign_id])
     THEN /\ response' = Resp("delete", 400, "Cannot delete running campaign", 0)
          /\ UNCHANGED active_campaigns
     ELSE /\ active_campaigns' = active_campaigns \ {campaign_id}
          /\ response' = Resp("delete", 200, "", 0)
  /\ UNCHANGED <<firebase_apps, pyrebase_apps, campaigns, daily_counts, today,
                 runs, units, fire_queue, lightnings, sends_ok>>

\* POST /campaigns/{id}/pause and /resume: the application declares no such
\* route (its campaign routes are create, list, get, update, delete, start),
\* so the framework answers "Not Found" and no handler runs
pause_campaign(campaign_id) ==
  /\ response' = Resp("pause", 404, "Not Found", 0)
  /\ UNCHANGED <<firebase_apps, pyrebase_apps, active_campaigns, campaigns,
                 daily_counts, today, runs, units, fire_queue, lightnings, sends_ok>>

resume_campaign(campaign_id) ==
  /\ response' = Resp("resume", 404, "Not Found", 0)
  /\ UNCHANGED <<firebase_apps, pyrebase_apps, active_campaigns, campaigns,
                 daily_counts, today, runs, units, fire_queue, lightnings, sends_ok>>

\* start_campaign without its status test
StartRefusedNever(campaign) == FALSE

\* the test that makes start_campaign refuse a campaign
StartRefused(campaign) == IsRunning(campaign)

\* POST /campaigns/{id}/start; the HTTPException raised inside the try block
\* is caught by "except Exception" and raised again with status 500
start_campaign(campaign_id) ==
  /\ IF campaign_id \notin active_campaigns
     THEN /\ response' = Resp("start", 500, "Campaign not found", 0)
          /\ UNCHANGED <<campaigns, runs>>
     ELSE IF StartRefused(campaigns[campaign_id])
     THEN /\ response' = Resp("start", 500, "Campaign already running", 0)
          /\ UNCHANGED <<campaigns, runs>>
     ELSE /\ Len(runs) < MaxStarts
          /\ campaigns' = [campaigns EXCEPT
                             ![campaign_id].status = "running",
                             ![campaign_id].startedAt = Some(today)]
          /\ runs' = Append(runs, [campaign_id |-> campaign_id, pc |-> "scheduled",
                                    raised |-> FALSE])
          /\ response' = Resp("start", 200, "", 0)
  /\ UNCHANGED <<firebase_apps, pyrebase_apps, active_campaigns, daily_counts,
                 today, units, fire_queue, lightnings, sends_ok>>

\* ---------------------------------------------------- run_parallel_campaign
\* campaign["selectedUsers"].items(), in a fixed project order
Items(selectedUsers) ==
  SelectSeq(ProjectOrder, LAMBDA p : p \in DOMAIN selectedUsers)

NewUnit(r, campaign_id, project_id, user_uids) ==
  [run |-> r, campaign_id |-> campaign_id, project_id |-> project_id,
   user_uids |-> user_uids, user_emails |-> <<>>, i |-> 0, attempts |-> <<>>,
   project_processed |-> 0, project_successful |-> 0, project_failed |-> 0,
   pc |-> "created"]

UnitsOf(r) == {u \in units : u.run = r}

\* first step of the background task: up to "await asyncio.gather(*tasks)";
\* gather of no task is already done, so the await does not suspend
RunBegin(r) ==
  /\ runs[r].pc = "scheduled"
  /\ LET campaign_id == runs[r].campaign_id
         campaign == campaigns[campaign_id]
         items == Items(campaign.selectedUsers)
     IN IF campaign_id \notin active_campaigns
        THEN \* KeyError, then UnboundLocalError in the handler: the task dies
             /\ runs' = [runs EXCEPT ![r].pc = "done"]
             /\ UNCHANGED <<campaigns, units>>
        ELSE IF Len(items) = 0
        THEN /\ runs' = [runs EXCEPT ![r].pc = "done"]
             /\ campaigns' = [campaigns EXCEPT
                                ![campaign_id].status = "completed",
                                ![campaign_id].completedAt = Some(today)]
             /\ UNCHANGED units
        ELSE /\ runs' = [runs EXCEPT ![r].pc = "gathering"]
             /\ units' = units \cup
                  {NewUnit(r, campaign_id, items[j],
                           campaign.selectedUsers[items[j]]) : j \in 1..Len(items)}
             /\ UNCHANGED campaigns
  /\ response' = NoResponse
  /\ UNCHANGED <<firebase_apps, pyrebase_apps, active_campaigns, daily_counts,
                 today, fire_queue, lightnings, sends_ok>>

\* a loop that walks the list from its end
NextUidFromEnd(u) == u.user_uids[Len(u.user_uids) - u.i]

\* "for uid in user_uids": the id of the pass that follows i passes
NextUid(u) == u.user_uids[u.i + 1]

\* one pass of the loop "for uid in user_uids" of run_project_campaign, from
\* "email = user_emails.get(uid)" to "await asyncio.sleep(0.15)"; ok is the
\* outcome of send_password_reset_email.  The result is the campaign dict, the
\* task, the ledger and the send history after the pass.
LoopPass(campaign, u, dc, hist, day, ok) ==
  LET uid == NextUid(u)
      email == IF uid \in DOMAIN u.user_emails THEN u.user_emails[uid] ELSE None
      sent == email # None /\ ok
      bad == email # None /\ ~ok
      project_successful == u.project_successful + (IF sent THEN 1 ELSE 0)
      project_failed == u.project_failed + (IF bad THEN 1 ELSE 0)
      project_processed == u.project_processed + 1
      dc1 == IF sent THEN increment_daily_count(dc, u.project_id, day) ELSE dc
      hist1 == IF sent THEN RecordSend(hist, u.project_id, day) ELSE hist
      c1 == [campaign EXCEPT
               !.errors = IF bad THEN Append(@, <<"Failed to send to", email>>) ELSE @,
               !.processed = @ + 1]
      u1 == [u EXCEPT !.i = @ + 1,
                      !.attempts = IF email # None THEN Append(@, uid) ELSE @,
                      !.project_processed = project_processed,
                      !.project_successful = project_successful,
                      !.project_failed = project_failed]
  IN IF u.project_id \notin DOMAIN campaign.projectStats
     THEN \* KeyError on campaign["projectStats"][project_id]
          [campaign |-> c1, unit |-> [u1 EXCEPT !.pc = "raised"],
           daily_counts |-> dc1, sends_ok |-> hist1]
     ELSE LET old == campaign.projectStats[u.project_id]
              c2 == [c1 EXCEPT
                       !.successful = @ + (IF email # None /\ project_successful > old.successful
                                           THEN 1 ELSE 0),
                       !.failed = @ + (IF project_failed > old.failed THEN 1 ELSE 0),
                       !.projectStats[u.project_id] =
                          [processed |-> project_processed,
                           successful |-> project_successful,
                           failed |-> project_failed]]
          IN [campaign |-> c2, unit |-> [u1 EXCEPT !.pc = "sleeping"],
              daily_counts |-> dc1, sends_ok |-> hist1]

\* a task that returns or raises is over: it leaves units; an exception
\* reaches gather (runs[r].raised) when the run is still awaiting it
ApplyPass(u, u0, ok) ==
  LET res == LoopPass(campaigns[u.campaign_id], u0, daily_counts, sends_ok, today, ok)
  IN /\ campaigns' = [campaigns EXCEPT ![u.campaign_id] = res.campaign]
     /\ daily_counts' = res.daily_counts
     /\ sends_ok' = res.sends_ok
     /\ IF res.unit.pc = "raised"
        THEN /\ units' = units \ {u}
             /\ runs' = [runs EXCEPT ![u.run].raised = (runs[u.run].pc = "gathering")]
        ELSE /\ units' = (units \ {u}) \cup {res.unit}
             /\ UNCHANGED runs

Return(u) ==
  /\ units' = units \ {u}
  /\ UNCHANGED <<campaigns, daily_counts, sends_ok, runs>>

\* first step of a run_project_campaign task: the handle test, the directory
\* query and, when there is an id, the first pass of the loop
UnitBegin(u) ==
  /\ u \in units
  /\ u.pc = "created"
  /\ IF u.project_id \notin pyrebase_apps \/ u.project_id \notin firebase_apps
     THEN Return(u)
     ELSE \* auth.list_users raises (listed is false), or some of the ids
          \* come back with an email (q)
          \E q \in SUBSET Range(u.user_uids), listed \in BOOLEAN :
            IF ~listed
            THEN q = {} /\ Return(u)
            ELSE IF Len(u.user_uids) = 0
            THEN q = {} /\ Return(u)
            ELSE \E ok \in BOOLEAN :
                   ApplyPass(u, [u EXCEPT !.user_emails = [x \in q |-> EmailNames[x]]], ok)
  /\ response' = NoResponse
  /\ UNCHANGED <<firebase_apps, pyrebase_apps, active_campaigns, today,
                 fire_queue, lightnings>>

\* a later step of the task: it wakes from the sleep and makes the next pass,
\* or leaves the loop and returns
UnitStep(u) ==
  /\ u \in units
  /\ u.pc = "sleeping"
  /\ IF u.i = Len(u.user_uids)
     THEN Return(u)
     ELSE \E ok \in BOOLEAN : ApplyPass(u, u, ok)
  /\ response' = NoResponse
  /\ UNCHANGED <<firebase_apps, pyrebase_apps, active_campaigns, today,
                 fire_queue, lightnings>>

\* a wait that ends with the first task that returns
GatherFirstDone(r) ==
  /\ ~runs[r].raised
  /\ Cardinality(UnitsOf(r)) <
       Len(Items(campaigns[runs[r].campaign_id].selectedUsers))

\* asyncio.gather(*tasks) is done: every task returned
GatherDone(r) == UnitsOf(r) = {} /\ ~runs[r].raised
\* a wait that never sees the exception of a task
GatherRaisedNever(r) == FALSE

\* asyncio.gather(*tasks) raises: a task raised; the tasks were queued before
\* the wake-up of the run, so each of them has made its first step by then
GatherRaised(r) == runs[r].raised /\ \A u \in UnitsOf(r) : u.pc # "created"

\* the lines after the await: mark the campaign completed
RunComplete(r) ==
  /\ runs[r].pc = "gathering"
  /\ GatherDone(r)
  /\ runs' = [runs EXCEPT ![r].pc = "done"]
  /\ campaigns' = [campaigns EXCEPT
                     ![runs[r].campaign_id].status = "completed",
                     ![runs[r].campaign_id].completedAt = Some(today)]
  /\ response' = NoResponse
  /\ UNCHANGED <<firebase_apps, pyrebase_apps, active_campaigns, daily_counts,
                 today, units, fire_queue, lightnings, sends_ok>>

\* the except branch of run_parallel_campaign
RunFail(r) ==
  /\ runs[r].pc = "gathering"
  /\ GatherRaised(r)
  /\ runs' = [runs EXCEPT ![r].pc = "done", ![r].raised = FALSE]
  /\ campaigns' = [campaigns EXCEPT
                     ![runs[r].campaign_id].status = "failed",
                     ![runs[r].campaign_id].errors =
                        Append(@, <<"Campaign failed", "KeyError">>)]
  /\ response' = NoResponse
  /\ UNCHANGED <<firebase_apps, pyrebase_apps, active_campaigns, daily_counts,
                 today, units, fire_queue, lightnings, sends_ok>>

\* ------------------------------------------------ /lightning/send-batch
RECURSIVE IncrementTimes(_, _, _, _)
\* n calls of increment_daily_count, one after each successful send
IncrementTimes(dc, project_id, day, n) ==
  IF n = 0 THEN dc
  ELSE IncrementTimes(increment_daily_count(dc, project_id, day), project_id, day, n - 1)

\* user_emails.values(): the emails of the resolved ids, in the order in which
\* the ids first come in user_ids (user_emails is a dict: one entry per id)
EmailsOf(user_ids, q) ==
  LET first == {j \in 1..Len(user_ids) :
                  /\ user_ids[j] \in q
                  /\ \A j2 \in 1..(j - 1) : user_ids[j2] # user_ids[j]}
      nth(n) == CHOOSE j \in first : Cardinality({j2 \in first : j2 < j}) = n - 1
  IN [n \in 1..Cardinality(first) |-> EmailNames[user_ids[nth(n)]]]

\* lightning mode with the gather awaited: the sends are made before the
\* handler returns
fire_all_awaited(project_id, emails, q) ==
  \E good \in SUBSET q :
    /\ daily_counts' = IncrementTimes(daily_counts, project_id, today, Cardinality(good))
    /\ sends_ok' = [sends_ok EXCEPT ![<<project_id, today>>] = @ + Cardinality(good)]
    /\ response' = Resp("lightning", 200, "", Len(emails))
    /\ UNCHANGED fire_queue

\* lightning mode: the fire_email tasks are created and not awaited
fire_all(project_id, emails, q) ==
  /\ fire_queue' = fire_queue \o
       [j \in 1..Len(emails) |-> [project_id |-> project_id, email |-> emails[j]]]
  /\ response' = Resp("lightning", 200, "", Len(emails))
  /\ UNCHANGED <<daily_counts, sends_ok>>

\* regular mode: the sends are made inside the handler
send_all(project_id, emails, q) ==
  \E good \in SUBSET q :
    /\ daily_counts' = IncrementTimes(daily_counts, project_id, today, Cardinality(good))
    /\ sends_ok' = [sends_ok EXCEPT ![<<project_id, today>>] = @ + Cardinality(good)]
    /\ response' = Resp("lightning", 200, "", Cardinality(good))
    /\ UNCHANGED fire_queue

lightning_send_batch(project_id, user_ids, lightning) ==
  /\ lightnings < MaxLightning
  /\ lightnings' = lightnings + 1
  /\ IF project_id \notin pyrebase_apps \/ project_id \notin firebase_apps
     THEN /\ response' = Resp("lightning", 200, "Project not found", 0)
          /\ UNCHANGED <<fire_queue, daily_counts, sends_ok>>
     ELSE \E q \in SUBSET Range(user_ids) :   \* ids auth.get_user gives an email for
            LET emails == EmailsOf(user_ids, q)
            IN IF lightning
               THEN fire_all(project_id, emails, q)
               ELSE send_all(project_id, emails, q)
  /\ UNCHANGED <<firebase_apps, pyrebase_apps, active_campaigns, campaigns, today,
                 runs, units>>

\* a fire_email that also counts the send in the campaigns that name the project
fire_email_counted ==
  /\ fire_queue # <<>>
  /\ LET t == Head(fire_queue)
     IN \E ok \in BOOLEAN :
          /\ IF ok
             THEN /\ daily_counts' = increment_daily_count(daily_counts, t.project_id, today)
                  /\ sends_ok' = RecordSend(sends_ok, t.project_id, today)
             ELSE UNCHANGED <<daily_counts, sends_ok>>
          /\ campaigns' = [c \in 1..Len(campaigns) |->
                             IF t.project_id \in DOMAIN campaigns[c].projectStats
                             THEN [campaigns[c] EXCEPT !.processed = @ + 1]
                             ELSE campaigns[c]]
  /\ fire_queue' = Tail(fire_queue)
  /\ response' = NoResponse
  /\ UNCHANGED <<firebase_apps, pyrebase_apps, active_campaigns, today,
                 runs, units, lightnings>>

\* one detached fire_email task runs: the send, and the increment if it worked
fire_email ==
  /\ fire_queue # <<>>
  /\ LET t == Head(fire_queue)
     IN \E ok \in BOOLEAN :
          IF ok
          THEN /\ daily_counts' = increment_daily_count(daily_counts, t.project_id, today)
               /\ sends_ok' = RecordSend(sends_ok, t.project_id, today)
          ELSE UNCHANGED <<daily_counts, sends_ok>>
  /\ fire_queue' = Tail(fire_queue)
  /\ response' = NoResponse
  /\ UNCHANGED <<firebase_apps, pyrebase_apps, active_campaigns, campaigns, today,
                 runs, units, lightnings>>

\* midnight passes: date.today() gives the next day
DayChange ==
  /\ today < MaxDay
  /\ today' = today + 1
  /\ response' = NoResponse
  /\ UNCHANGED <<firebase_apps, pyrebase_apps, active_campaigns, campaigns,
                 daily_counts, runs, units, fire_queue, lightnings, sends_ok>>

\* the ids a caller names: those create_campaign has given out, in the
\* registry or deleted from it
CampaignIds == 1..Len(campaigns)

Next ==
  \/ \E inp \in CampaignInputs : create_campaign(inp)
  \/ \E c \in CampaignIds : get_campaign(c)
  \/ \E c \in CampaignIds, upd \in UpdateInputs : update_campaign(c, upd)
  \/ \E c \in CampaignIds : delete_campaign(c)
  \/ \E c \in CampaignIds : start_campaign(c)
  \/ \E c \in CampaignIds : pause_campaign(c)
  \/ \E c \in CampaignIds : resume_campaign(c)
  \/ \E r \in 1..Len(runs) : RunBegin(r)
  \/ \E u \in units : UnitBegin(u)
  \/ \E u \in units : UnitStep(u)
  \/ \E r \in 1..Len(runs) : RunComplete(r)
  \/ \E r \in 1..Len(runs) : RunFail(r)

Spec == Init /\ [][Next]_vars

\* The event loop runs every task that is ready: a background task that was
\* scheduled begins, a task that was created or whose sleep is over makes its
\* next step (every directory and send call returns), and a run whose wait
\* on gather is over goes on.  Requests of callers come when they come.
Fairness ==
  /\ WF_vars(\E r \in 1..Len(runs) : RunBegin(r))
  /\ WF_vars(\E u \in units : UnitBegin(u))
  /\ WF_vars(\E u \in units : UnitStep(u))
  /\ WF_vars(\E r \in 1..Len(runs) : RunComplete(r))
  /\ WF_vars(\E r \in 1..Len(runs) : RunFail(r))

\* the requests that start work or change the registry, and the tasks
NextLive ==
  \/ \E inp \in CampaignInputs : create_campaign(inp)
  \/ \E c \in CampaignIds : delete_campaign(c)
  \/ \E c \in CampaignIds : start_campaign(c)
  \/ \E r \in 1..Len(runs) : RunBegin(r)
  \/ \E u \in units : UnitBegin(u)
  \/ \E u \in units : UnitStep(u)
  \/ \E r \in 1..Len(runs) : RunComplete(r)
  \/ \E r \in 1..Len(runs) : RunFail(r)

SpecLive == Init /\ [][NextLive]_vars /\ Fairness

\* A campaign in its run, the lightning endpoint and the calendar.  The
\* behaviours begin where a campaign has been created and started:
\* create_campaign(inp) and start_campaign(1) have been called.
InitLedger ==
  /\ firebase_apps = Registered
  /\ pyrebase_apps = firebase_apps
  /\ active_campaigns = {1}
  /\ \E inp \in CampaignInputs :
       campaigns = <<[NewCampaign(inp) EXCEPT !.status = "running",
                                              !.startedAt = Some(0)]>>
  /\ daily_counts = <<>>
  /\ today = 0
  /\ runs = <<[campaign_id |-> 1, pc |-> "scheduled", raised |-> FALSE]>>
  /\ units = {}
  /\ fire_queue = <<>>
  /\ lightnings = 0
  /\ sends_ok = [k \in Keys |-> 0]
  /\ response = Resp("start", 200, "", 0)

NextLedger ==
  \/ \E r \in 1..Len(runs) : RunBegin(r)
  \/ \E u \in units : UnitBegin(u)
  \/ \E u \in units : UnitStep(u)
  \/ \E r \in 1..Len(runs) : RunComplete(r)
  \/ \E r \in 1..Len(runs) : RunFail(r)
  \/ \E p \in Projects, ids \in UidLists, l \in BOOLEAN : lightning_send_batch(p, ids, l)
  \/ fire_email
  \/ DayChange

SpecLedger == InitLedger /\ [][NextLedger]_vars

\* Two tasks side by side, each with more than one id, and a task that raises
\* beside a task with two ids; the behaviours begin where such a campaign has
\* been created and started.
OrderInputs ==
  {[projectIds |-> {"p1", "p2"}, selectedUsers |-> [p \in {"p1", "p2"} |-> <<1, 2>>]],
   [projectIds |-> {"p1", "p2"}, selectedUsers |-> [p \in {"p1", "p2"} |-> <<2, 1>>]],
   [projectIds |-> {"p1"},
    selectedUsers |-> [p \in {"p1", "p2"} |-> IF p = "p1" THEN <<1, 2>> ELSE <<1>>]]}

InitOrder ==
  /\ firebase_apps = Registered
  /\ pyrebase_apps = firebase_apps
  /\ active_campaigns = {1}
  /\ \E inp \in OrderInputs :
       campaigns = <<[NewCampaign(inp) EXCEPT !.status = "running",
                                              !.startedAt = Some(0)]>>
  /\ daily_counts = <<>>
  /\ today = 0
  /\ runs = <<[campaign_id |-> 1, pc |-> "scheduled", raised |-> FALSE]>>
  /\ units = {}
  /\ fire_queue = <<>>
  /\ lightnings = 0
  /\ sends_ok = [k \in Keys |-> 0]
  /\ response = Resp("start", 200, "", 0)

NextOrder ==
  \/ \E r \in 1..Len(runs) : RunBegin(r)
  \/ \E u \in units : UnitBegin(u)
  \/ \E u \in units : UnitStep(u)
  \/ \E r \in 1..Len(runs) : RunComplete(r)
  \/ \E r \in 1..Len(runs) : RunFail(r)

SpecOrder == InitOrder /\ [][NextOrder]_vars

\* The lightning endpoint on its own: calls of /lightning/send-batch, the
\* fire_email tasks they detach and the calendar, beside a registry in which
\* a campaign may be created and none is started.
NextLightning ==
  \/ \E inp \in CampaignInputs : create_campaign(inp)
  \/ \E p \in Projects, ids \in UidLists, l \in BOOLEAN : lightning_send_batch(p, ids, l)
  \/ fire_email
  \/ DayChange

SpecLightning == Init /\ [][NextLightning]_vars

\* ------------------------------------------------------------ properties
Created == 1..Len(campaigns)
Counters(campaign) == <<campaign.processed, campaign.successful, campaign.failed>>

RECURSIVE SumStats(_, _, _)
\* a counter added up over the projectStats entries of the first n projects
SumStats(campaign, field, n) ==
  IF n = 0 THEN 0
  ELSE SumStats(campaign, field, n - 1) +
       (IF ProjectOrder[n] \in DOMAIN campaign.projectStats
        THEN campaign.projectStats[ProjectOrder[n]][field] ELSE 0)
StatsTotal(campaign, field) == SumStats(campaign, field, Len(ProjectOrder))

\* the run started last for a campaign
IsLastRun(r) ==
  \A r2 \in 1..Len(runs) : runs[r2].campaign_id = runs[r].campaign_id => r2 <= r

\* ids among the first i of a task's list that the directory gave an email for
ResolvedSoFar(u) ==
  Cardinality({j \in 1..u.i : u.user_uids[j] \in DOMAIN u.user_emails})

\* C1: in every reachable state, processed = successful + failed for the
\* aggregate counters of every campaign and for every projectStats entry.
C1_ProcessedIsSuccessfulPlusFailed ==
  \A c \in Created :
    /\ campaigns[c].processed = campaigns[c].successful + campaigns[c].failed
    /\ \A pid \in DOMAIN campaigns[c].projectStats :
         LET st == campaigns[c].projectStats[pid]
         IN st.processed = st.successful + st.failed

\* C2: in every state (a step of the model is a whole loop pass, so no task
\* is ever inside one), each aggregate counter of a campaign equals the sum of
\* that counter over its projectStats entries.
C2_AggregateIsSumOfProjects ==
  \A c \in Created :
    /\ campaigns[c].processed = StatsTotal(campaigns[c], "processed")
    /\ campaigns[c].successful = StatsTotal(campaigns[c], "successful")
    /\ campaigns[c].failed = StatsTotal(campaigns[c], "failed")

StatusEdges ==
  {<<"pending", "running">>, <<"running", "paused">>, <<"paused", "running">>,
   <<"running", "completed">>, <<"running", "failed">>}

\* C3: the status of a campaign changes only along pending->running,
\* running->paused, paused->running, running->completed, running->failed;
\* completed and failed are never left.
C3_StatusFollowsEdges ==
  [][\A c \in Created :
       campaigns'[c].status # campaigns[c].status =>
         <<campaigns[c].status, campaigns'[c].status>> \in StatusEdges]_vars

\* C4: a start call on a campaign whose status is running answers with an
\* error and changes neither the campaign records nor the set of scheduled
\* runs and tasks.
C4_StartOfRunningRejected ==
  [][\A c \in active_campaigns :
       (campaigns[c].status = "running" /\ start_campaign(c)) =>
         /\ response'.code # 200
         /\ response'.detail = "Campaign already running"
         /\ campaigns' = campaigns
         /\ runs' = runs
         /\ units' = units]_vars

C4_Witness ==
  /\ response.op = "start"
  /\ response.detail = "Campaign already running"
  /\ \E c \in active_campaigns : campaigns[c].status = "running"

\* C5: update_campaign and delete_campaign on a running campaign answer with
\* an error and leave the registry and its records unchanged; on a campaign
\* of the registry with any other status the update succeeds and stores the
\* new fields, and the delete succeeds and removes the campaign.
C5_UpdateDeleteOnlyWhenNotRunning ==
  [][\A c \in active_campaigns :
       /\ \A upd \in UpdateInputs :
            update_campaign(c, upd) =>
              IF campaigns[c].status = "running"
              THEN /\ response'.code = 400
                   /\ campaigns' = campaigns
                   /\ active_campaigns' = active_campaigns
              ELSE /\ response'.code = 200
                   /\ campaigns'[c] = ApplyUpdate(campaigns[c], upd)
                   /\ active_campaigns' = active_campaigns
       /\ delete_campaign(c) =>
            IF campaigns[c].status = "running"
            THEN /\ response'.code = 400
                 /\ campaigns' = campaigns
                 /\ active_campaigns' = active_campaigns
            ELSE /\ response'.code = 200
                 /\ active_campaigns' = active_campaigns \ {c}]_vars

C5_Witness ==
  /\ response.op = "update"
  /\ response.code = 400
  /\ \E c \in active_campaigns :
       campaigns[c].status = "running" /\ campaigns[c].processed > 0

\* C6: an id the directory gives no email for is counted nowhere: while a
\* campaign is in its first run, the processed counter of a project equals
\* the number of ids passed so far that resolved to an email.
C6_UnresolvedNotProcessed ==
  \A u \in units :
    (/\ u.pc = "sleeping"
     /\ Len(runs) = 1
     /\ u.project_id \in DOMAIN campaigns[u.campaign_id].projectStats)
    => campaigns[u.campaign_id].projectStats[u.project_id].processed = ResolvedSoFar(u)

\* C7: when the status of a campaign is completed, no task of the run that
\* completed it (the run started last) is still alive.
C7_CompletedAfterEveryUnit ==
  \A r \in 1..Len(runs) :
    (IsLastRun(r) /\ campaigns[runs[r].campaign_id].status = "completed")
    => UnitsOf(r) = {}

C7_Witness ==
  \E c \in Created :
    /\ campaigns[c].status = "completed"
    /\ Cardinality(DOMAIN campaigns[c].selectedUsers) = 2
    /\ campaigns[c].processed = 2

\* C8: an error inside a project's task never sets the status failed; the
\* tasks are the only source of errors here, so no campaign is ever failed.
C8_UnitErrorNeverFailsCampaign ==
  \A c \in Created : campaigns[c].status # "failed"

\* C9: a task for which no id resolved to an email (the query failed, or it
\* gave no email) changes no counter of its campaign and no ledger record.
C9_NothingResolvedNothingCounted ==
  [][\A u \in units' :
       (u \notin units /\ u.pc # "created" /\ DOMAIN u.user_emails = {}) =>
         /\ Counters(campaigns'[u.campaign_id]) = Counters(campaigns[u.campaign_id])
         /\ campaigns'[u.campaign_id].projectStats = campaigns[u.campaign_id].projectStats
         /\ daily_counts' = daily_counts]_vars

\* C10: for every project, today's ledger count equals the number of
\* successful send calls made for it today by tasks of campaigns, by
\* fire_email tasks and by the regular batch send.
C10_LedgerCountsSuccessfulSends ==
  \A p \in Projects : get_daily_count(daily_counts, p, today) = sends_ok[<<p, today>>]

\* a project whose count of today holds sends of a campaign task and sends of
\* the lightning endpoint
C10_Witness ==
  \E p \in DOMAIN campaigns[1].projectStats :
    /\ campaigns[1].projectStats[p].successful >= 1
    /\ get_daily_count(daily_counts, p, today) > campaigns[1].projectStats[p].successful
    /\ lightnings >= 1

C12_LightningAnswersBeforeAnySend ==
  [][\A p \in Projects, ids \in UidLists :
       (/\ lightnings' # lightnings
        /\ p \in firebase_apps /\ p \in pyrebase_apps
        /\ lightning_send_batch(p, ids, TRUE)) =>
         \E q \in SUBSET Range(ids) :
           /\ response' = Resp("lightning", 200, "", Cardinality(q))
           /\ Len(fire_queue') = Len(fire_queue) + Cardinality(q)
           /\ SubSeq(fire_queue', 1, Len(fire_queue)) = fire_queue
           /\ {fire_queue'[j].email : j \in (Len(fire_queue) + 1)..Len(fire_queue')}
                = {EmailNames[x] : x \in q}
           /\ \A j \in (Len(fire_queue) + 1)..Len(fire_queue') :
                fire_queue'[j].project_id = p
           /\ sends_ok' = sends_ok
           /\ daily_counts' = daily_counts]_vars

\* the call has just answered fired = 2 and its two sends are still to be made
C12_Witness ==
  /\ response = Resp("lightning", 200, "", 2)
  /\ lightnings = 1
  /\ Len(fire_queue) = 2

\* C13: a step of lightning_send_batch (either mode) or of a fire_email task
\* it detached changes no campaign record and not the registry.
C13_LightningLeavesCampaignsAlone ==
  [][(lightnings' # lightnings \/ Len(fire_queue') < Len(fire_queue)) =>
       /\ campaigns' = campaigns
       /\ active_campaigns' = active_campaigns]_vars

\* the sends of a lightning_send_batch call have been made for a project
\* while a task of a running campaign is at work
C13_Witness ==
  /\ lightnings = 1
  /\ fire_queue = <<>>
  /\ campaigns[1].status = "running"
  /\ campaigns[1].processed >= 1
  /\ units # {}
  /\ \E p \in DOMAIN campaigns[1].projectStats :
       sends_ok[<<p, today>>] >= campaigns[1].projectStats[p].successful + 2

\* the projects a campaign names that have no handle
Unregistered(campaign) ==
  {p \in campaign.projectIds \cup DOMAIN campaign.selectedUsers :
     p \notin pyrebase_apps \/ p \notin firebase_apps}

\* C14: get, update, delete and start on an id that is not in the registry,
\* start of a campaign that names a project without handle and a lightning
\* send for such a project all answer with an error and change neither the
\* campaign records, nor the registry, nor the ledger.
C14_ConfigurationErrorsChangeNothing ==
  [][/\ \A c \in CampaignIds, upd \in UpdateInputs :
          (/\ \/ c \notin active_campaigns
              \/ Unregistered(campaigns[c]) # {} /\ ~IsRunning(campaigns[c])
           /\ \/ c \notin active_campaigns /\ get_campaign(c)
              \/ c \notin active_campaigns /\ update_campaign(c, upd)
              \/ c \notin active_campaigns /\ delete_campaign(c)
              \/ start_campaign(c))
          => /\ response'.code # 200
             /\ response'.detail # ""
             /\ campaigns' = campaigns
             /\ active_campaigns' = active_campaigns
             /\ runs' = runs
             /\ daily_counts' = daily_counts
      /\ \A p \in Projects, ids \in UidLists, l \in BOOLEAN :
          ((p \notin pyrebase_apps \/ p \notin firebase_apps)
             /\ lightning_send_batch(p, ids, l))
          => /\ response'.detail # ""
             /\ campaigns' = campaigns
             /\ active_campaigns' = active_campaigns
             /\ fire_queue' = fire_queue
             /\ daily_counts' = daily_counts]_vars

\* C15: a pause request on a running campaign of the registry succeeds and
\* sets its status to paused while the tasks in flight are left as they are;
\* a resume request on a paused campaign succeeds, sets the status back to
\* running and creates no run and no task.
C15_PauseAndResumeSetTheStatus ==
  [][\A c \in active_campaigns :
       /\ (campaigns[c].status = "running" /\ pause_campaign(c)) =>
            /\ response'.code = 200
            /\ campaigns'[c].status = "paused"
            /\ units' = units
            /\ runs' = runs
       /\ (campaigns[c].status = "paused" /\ resume_campaign(c)) =>
            /\ response'.code = 200
            /\ campaigns'[c].status = "running"
            /\ units' = units
            /\ runs' = runs]_vars

\* the length of the id list of a project in a campaign (0 without a list)
IdCount(campaign, p) ==
  IF p \in DOMAIN campaign.selectedUsers THEN Len(campaign.selectedUsers[p]) ELSE 0

RECURSIVE SumIds(_, _)
SumIds(campaign, n) ==
  IF n = 0 THEN 0 ELSE SumIds(campaign, n - 1) + IdCount(campaign, ProjectOrder[n])
TotalIds(campaign) == SumIds(campaign, Len(ProjectOrder))

\* the only run of campaign c is over, with every task of it, every project
\* the campaign names has its handles, and a send succeeded for every id (so
\* every id resolved to an email)
AllSentInOneRun(c) ==
  /\ Len(runs) = 1
  /\ runs[1].campaign_id = c
  /\ runs[1].pc = "done"
  /\ UnitsOf(1) = {}
  /\ Unregistered(campaigns[c]) = {}
  /\ \A p \in Projects : sends_ok[<<p, 0>>] = IdCount(campaigns[c], p)

\* C16: when a campaign was started once, all its projects are registered,
\* every id resolved and every send succeeded, the run leaves status
\* completed, processed = successful = the number of ids, failed = 0, no error
\* and for every project the projectStats entry {n, n, 0}, n the length of
\* its id list.
C16_AllSentGivesCompletedAndFullCounts ==
  \A c \in Created :
    AllSentInOneRun(c) =>
      /\ campaigns[c].status = "completed"
      /\ campaigns[c].processed = TotalIds(campaigns[c])
      /\ campaigns[c].successful = TotalIds(campaigns[c])
      /\ campaigns[c].failed = 0
      /\ campaigns[c].errors = <<>>
      /\ \A p \in DOMAIN campaigns[c].projectStats :
           campaigns[c].projectStats[p] =
             [processed |-> IdCount(campaigns[c], p),
              successful |-> IdCount(campaigns[c], p), failed |-> 0]

\* the error strings of failed sends in an error list
SendErrors(errors) ==
  Cardinality({j \in 1..Len(errors) : errors[j][1] = "Failed to send to"})

\* the failed counter of a project (0 while it has no projectStats entry)
FailedOf(campaign, p) ==
  IF p \in DOMAIN campaign.projectStats THEN campaign.projectStats[p].failed ELSE 0

\* C17: a step in which a send fails (it appends a "Failed to send to" error)
\* adds exactly one to the aggregate failed counter and to the failed counter
\* of the project, and the task stays alive to go on with the next id; the
\* failed counter changes in no other way; so when a campaign is over (status
\* completed or failed, no task alive) its failed counter equals the number
\* of "Failed to send to" errors in its list.
C17_FailedSendCountedOnceAndTaskGoesOn ==
  /\ [][\A c \in Created :
          LET n == Len(campaigns[c].errors)
              sendFailed == /\ Len(campaigns'[c].errors) = n + 1
                            /\ campaigns'[c].errors[n + 1][1] = "Failed to send to"
          IN /\ sendFailed =>
                  /\ campaigns'[c].failed = campaigns[c].failed + 1
                  /\ \A u \in units \ units' :
                       /\ FailedOf(campaigns'[c], u.project_id)
                            = FailedOf(campaigns[c], u.project_id) + 1
                       /\ \E u2 \in units' \ units :
                            /\ u2.run = u.run
                            /\ u2.project_id = u.project_id
                            /\ u2.i = u.i + 1
                            /\ u2.pc = "sleeping"
             /\ campaigns'[c].failed # campaigns[c].failed => sendFailed]_vars
  /\ [](\A c \in Created :
          (campaigns[c].status \in {"completed", "failed"}
             /\ \A u \in units : u.campaign_id # c)
          => campaigns[c].failed = SendErrors(campaigns[c].errors))

\* C18: two live run_project_campaign tasks of one campaign never work for
\* the same project, so the projectStats entry of a project has at most one
\* live writer.
C18_OneLiveTaskPerProject ==
  \A u1, u2 \in units :
    (u1.campaign_id = u2.campaign_id /\ u1.project_id = u2.project_id) => u1.run = u2.run

\* the positions of a task's id list whose id has an email
ResolvedPositions(u) ==
  {j \in 1..Len(u.user_uids) : u.user_uids[j] \in DOMAIN u.user_emails}

\* C19: the sends a task has made so far are those for the ids with an email
\* among the first i of its list, in the order of the list: the k-th send of
\* the task went to the id at the k-th such position, whatever the other
\* tasks did in between; and a pass records its outcome before the next
\* send (the counters of the task count exactly the sends made).
C19_SendsFollowTheListOrder ==
  \A u \in units :
    /\ u.pc = "sleeping" =>
         Len(u.attempts) = Cardinality({j \in ResolvedPositions(u) : j <= u.i})
    /\ \A k \in 1..Len(u.attempts) :
         \E j \in ResolvedPositions(u) :
           /\ j <= u.i
           /\ u.attempts[k] = u.user_uids[j]
           /\ Cardinality({j2 \in ResolvedPositions(u) : j2 < j}) = k - 1
    /\ u.pc = "sleeping" => u.project_successful + u.project_failed = Len(u.attempts)

\* two tasks of a campaign are alive side by side and each has made the sends
\* for its list <<2, 1>>, in that order
C19_Witness ==
  \E u1, u2 \in units :
    /\ u1.project_id # u2.project_id
    /\ u1.attempts = <<2, 1>>
    /\ u2.attempts = <<2, 1>>

\* C20: while a task of a campaign is alive the status of the campaign is
\* running; no step changes the counters, the projectStats or the error list
\* of a campaign whose status is pending, completed or failed; and a campaign
\* on which update_campaign or delete_campaign succeeds has no live task.
C20_WorkInFlightOnlyWhileRunning ==
  /\ [](\A u \in units : campaigns[u.campaign_id].status = "running")
  /\ [][\A c \in Created :
          /\ campaigns[c].status \in {"pending", "completed", "failed"} =>
               /\ Counters(campaigns'[c]) = Counters(campaigns[c])
               /\ campaigns'[c].projectStats = campaigns[c].projectStats
               /\ campaigns'[c].errors = campaigns[c].errors
          /\ (/\ c \in active_campaigns
              /\ response'.code = 200
              /\ \/ delete_campaign(c)
                 \/ \E upd \in UpdateInputs : update_campaign(c, upd))
             => \A u \in units : u.campaign_id # c]_vars

\* C21: under fair scheduling of the tasks, a campaign whose status is
\* running (it was started) eventually has status completed or failed.  A
\* behaviour holds one campaign, with id 1.
C21_StartedCampaignEventuallyEnds ==
  (Len(campaigns) >= 1 /\ campaigns[1].status = "running")
    ~> (Len(campaigns) >= 1 /\ campaigns[1].status \in {"completed", "failed"})

\* a campaign that was started a second time has ended its second run
C21_Witness ==
  /\ Len(runs) = 2
  /\ runs[2].pc = "done"
  /\ campaigns[1].status \in {"completed", "failed"}
  /\ campaigns[1].processed >= 2
====
